---- MODULE Spec2Model ----
(***************************************************************************)
(* Model of the two ledger contracts of the repository:                    *)
(*   PokemonNFT          (src/src/contracts/PokemonNFT.sol), the asset     *)
(*                       registry, an OpenZeppelin ERC721;                 *)
(*   PokemonMarketplace  (src/unnamed/part_001), the escrow marketplace.   *)
(*                                                                         *)
(* Every public function is one action.  A transaction that reverts        *)
(* leaves the chain state as it was (EVM semantics); `last` records the    *)
(* function the last step called and how the call ended: "ok", or the      *)
(* revert reason under the name the specification gives it:                *)
(*   "InvalidPrice"      "Price must be greater than 0"                    *)
(*   "WrongPrice"        "Please submit the asking price"                  *)
(*   "AlreadySold"       "Item already sold" / "Cannot cancel sold items"  *)
(*   "NotSeller"         "Only seller can cancel listing"                  *)
(*   "FeeTooHigh"        "Fee cannot exceed 10%"                           *)
(*   "Unauthorized"      Ownable: caller is not the owner                  *)
(*   "NothingToWithdraw" "No fees to withdraw"                             *)
(*   "TransferFailed"    "Transfer to seller failed" / "Withdrawal failed" *)
(*   "UnknownAsset"      ERC721: invalid token ID                          *)
(*   "NotApproved"       ERC721: caller is not token owner or approved     *)
(*   "NotOwner"          ERC721: transfer from incorrect owner             *)
(*   "ZeroAddress"       ERC721: transfer / mint to the zero address       *)
(*   "ApproveOwner"      ERC721: approval to current owner                 *)
(*   "ReceiverRejected"  ERC721: transfer to non ERC721Receiver implementer*)
(*   "NoContract"        a call to an address that has no code             *)
(*   "AlreadyMinted"     ERC721: token already minted                      *)
(*   "ApproveToCaller"   ERC721: approve to caller                         *)
(*   "ReentrantCall"     ReentrancyGuard: reentrant call                   *)
(* block.timestamp (MarketItem.listedAt) and the token URI take part in no *)
(* decision of either contract and are left out of the records.            *)
(*                                                                         *)
(* Four specifications share the state and the definitions of the functions:*)
(*   Spec          the marketplace together with the registry functions it *)
(*                 needs (mint, approve, transferFrom), few tokens;        *)
(*   RegistrySpec  the registry alone, with every way of authorising a     *)
(*                 transfer and mints that re-enter mintPokemon from the   *)
(*                 recipient callback, more tokens;                        *)
(*   EscrowSpec    the marketplace without its fee functions, more items;  *)
(*   ReentrancySpec  the marketplace with transferOwnership and with       *)
(*                 sellers that call the marketplace from inside the       *)
(*                 payment of a sale.                                      *)
(***************************************************************************)
EXTENDS Integers, Sequences, FiniteSets, TLC

\* ---------------------------------------------------------------- bounds
MaxTokens == 1          \* Spec: mintPokemon is enabled while fewer tokens exist
MaxItems  == 2          \* createMarketItem is enabled while fewer items exist
MaxRegistryTokens == 3  \* RegistrySpec: tokens that can be minted
MaxReentrancy == 2      \* depth of the mints nested in one mintPokemon call
MaxEscrowItems == 3     \* EscrowSpec: createMarketItem is enabled while fewer
                        \* items exist

\* ------------------------------------------------------------- identities
Admin  == "admin"       \* deployer of the marketplace: Ownable.owner()
Seller == "seller"
Buyer  == "buyer"
Market == "market"      \* address(this) of PokemonMarketplace
Zero   == "zero"        \* address(0)

Users    == {Admin, Seller, Buyer}
Traders  == {Seller, Buyer}     \* the callers of the registry functions and
                                \* of cancelMarketItem
Sellers  == {Seller}            \* the callers of createMarketItem
Buyers   == {Buyer}             \* the callers of createMarketSale
Accounts == Users \cup {Market, Zero}

\* contracts a caller can pass as the nftContract argument
NFT  == "PokemonNFT"    \* the registry
Fake == "FakeNFT"       \* any other contract: its transferFrom returns
                        \* normally and moves nothing in the registry
NftContracts == {NFT, Fake}

\* accounts that may be contracts; the others are externally owned
CodeAccounts == {Seller}

\* ---------------------------------------------------------------- inputs
InitialBalance == 101
Prices     == {0, 50}           \* price argument of createMarketItem
Payments   == {0, 50, 51}       \* msg.value of createMarketSale
FeeInputs  == {0, 1000, 1001}   \* argument of updateListingFeePercentage

ApproveTargets  == {Market, Zero}           \* `to` of approve
TransferTargets == {Seller, Buyer, Zero}    \* `to` of a direct transferFrom
MintTargets     == {Seller, Buyer, Zero}    \* `to` of mintPokemon

TokenIds  == 1..MaxTokens       \* token ids a caller names in Spec
RegistryTokenIds == 1..MaxRegistryTokens    \* keys of ERC721._owners
RegistryApproveTargets == {Seller, Buyer, Zero}     \* `to` of approve in
                                                    \* RegistrySpec
ItemSlots == 0..MaxItems        \* keys of idToMarketItem a caller names in Spec
MarketItemIds == 0..MaxEscrowItems  \* keys of idToMarketItem
OwnerTargets == {Seller, Zero}  \* `newOwner` of transferOwnership

InitialListingFeePercentage == 250
PERCENTAGE_DENOMINATOR      == 10000
MaxListingFeePercentage     == 1000

VARIABLES
    tokenIds,               \* PokemonNFT._tokenIds
    owners,                 \* ERC721._owners
    tokenApprovals,         \* ERC721._tokenApprovals
    operatorApprovals,      \* ERC721._operatorApprovals: the pairs
                            \* <<owner, operator>> that are set
    ownedTokens,            \* ERC721Enumerable._ownedTokens: for every
                            \* account the list of its tokens, of length
                            \* balanceOf(account)
    pokemonDetails,         \* PokemonNFT.pokemonDetails: for every token id
                            \* whether the details given at mint are stored
    issued,                 \* history: the ids mintPokemon returned, in
                            \* the order the calls started, each with the
                            \* depth of the call (0: called from outside,
                            \* d + 1: called from the recipient callback
                            \* of a mint of depth d)
    itemIds,                \* PokemonMarketplace._itemIds
    itemsSold,              \* PokemonMarketplace._itemsSold
    idToMarketItem,         \* PokemonMarketplace.idToMarketItem
    listingFeePercentage,   \* PokemonMarketplace.listingFeePercentage
    marketplaceOwner,       \* Ownable._owner of PokemonMarketplace
    balance,                \* ether balance of every account
    last                    \* the function the last step called, and how
                            \* the call ended

registry == <<tokenIds, owners, tokenApprovals, operatorApprovals,
              ownedTokens, pokemonDetails, issued>>
market   == <<itemIds, itemsSold, idToMarketItem, listingFeePercentage,
              marketplaceOwner>>
chain == <<registry, market, balance>>
vars  == <<registry, market, balance, last>>

\* the value of a mapping entry that was never written, or was deleted
BlankItem ==
    [itemId |-> 0, nftContract |-> Zero, tokenId |-> 0, seller |-> Zero,
     owner |-> Zero, price |-> 0, sold |-> FALSE]

Init ==
    /\ tokenIds = 0
    /\ owners = [t \in RegistryTokenIds |-> Zero]
    /\ tokenApprovals = [t \in RegistryTokenIds |-> Zero]
    /\ operatorApprovals = {}
    /\ ownedTokens = [a \in Accounts |-> <<>>]
    /\ pokemonDetails = [t \in RegistryTokenIds |-> FALSE]
    /\ issued = <<>>
    /\ itemIds = 0
    /\ itemsSold = 0
    /\ idToMarketItem = [i \in MarketItemIds |-> BlankItem]
    /\ listingFeePercentage = InitialListingFeePercentage
    /\ marketplaceOwner = Admin
    /\ balance = [a \in Accounts |-> IF a \in Users THEN InitialBalance ELSE 0]
    /\ last = [op |-> "constructor", result |-> "ok"]

\* the call of function op ended with r
Returned(op, r) == last' = [op |-> op, result |-> r]

\* the outcomes of a plain ether transfer to account a: an account with
\* code may accept it or revert
ReceiveOutcomes(a) == IF a \in CodeAccounts THEN BOOLEAN ELSE {TRUE}

\* ------------------------------------------------------------ PokemonNFT
\* ERC721._exists
TokenExists(tokenId) == tokenId \in DOMAIN owners /\ owners[tokenId] # Zero

\* ERC721.ownerOf: the owner, or a revert for a token that was never minted
OwnerOf(tokenId) == IF TokenExists(tokenId) THEN owners[tokenId] ELSE "UnknownAsset"

\* ERC721.balanceOf
BalanceOf(owner) == Len(ownedTokens[owner])

\* ERC721.isApprovedForAll
IsApprovedForAll(owner, operator) == <<owner, operator>> \in operatorApprovals

\* ERC721._isApprovedOrOwner
IsApprovedOrOwner(spender, tokenId) ==
    \/ spender = owners[tokenId]
    \/ IsApprovedForAll(owners[tokenId], spender)
    \/ spender = tokenApprovals[tokenId]

\* outcome of ERC721.transferFrom(from, to, tokenId) called by caller
RegistryTransferResult(caller, from, to, tokenId) ==
    IF ~TokenExists(tokenId) THEN "UnknownAsset"
    ELSE IF ~IsApprovedOrOwner(caller, tokenId) THEN "NotApproved"
    ELSE IF owners[tokenId] # from THEN "NotOwner"
    ELSE IF to = Zero THEN "ZeroAddress"
    ELSE "ok"

\* outcome of IERC721(nft).transferFrom(from, to, tokenId) called by caller
TransferResult(nft, caller, from, to, tokenId) ==
    IF nft = NFT THEN RegistryTransferResult(caller, from, to, tokenId)
    ELSE IF nft = Fake THEN "ok"
    ELSE "NoContract"

\* ERC721Enumerable._addTokenToOwnerEnumeration: the token goes to index
\* balanceOf(to) of the list of `to`
AddTokenToOwnerEnumeration(lists, to, tokenId) ==
    [lists EXCEPT ![to] = Append(@, tokenId)]

\* mutant of RemoveTokenFromOwnerEnumeration: the entry stays
RemoveTokenKeepsEntry(lists, from, tokenId) == lists

\* ERC721Enumerable._removeTokenFromOwnerEnumeration: swap and pop, the last
\* token of the list moves to the index of the token that leaves
RemoveTokenFromOwnerEnumeration(lists, from, tokenId) ==
    LET list == lists[from]
        lastTokenIndex == Len(list)
        tokenIndex == CHOOSE k \in 1..Len(list) : list[k] = tokenId
        moved == IF tokenIndex # lastTokenIndex
                 THEN [list EXCEPT ![tokenIndex] = list[lastTokenIndex]]
                 ELSE list
    IN  [lists EXCEPT ![from] = SubSeq(moved, 1, lastTokenIndex - 1)]

\* ERC721._transfer: the registry after a transfer that did not revert
OwnersAfter(nft, to, tokenId) ==
    IF nft = NFT THEN [owners EXCEPT ![tokenId] = to] ELSE owners

ApprovalsAfter(nft, tokenId) ==
    IF nft = NFT THEN [tokenApprovals EXCEPT ![tokenId] = Zero]
    ELSE tokenApprovals

\* ERC721Enumerable._beforeTokenTransfer for a transfer between two accounts
OwnedTokensAfter(nft, to, tokenId) ==
    LET from == owners[tokenId]
    IN  IF nft = NFT /\ from # to
        THEN AddTokenToOwnerEnumeration(
                RemoveTokenFromOwnerEnumeration(ownedTokens, from, tokenId),
                to, tokenId)
        ELSE ownedTokens

\* getTokensOfOwner: tokenOfOwnerByIndex(owner, i) for i < balanceOf(owner)
GetTokensOfOwner(owner) ==
    [i \in 1..BalanceOf(owner) |-> ownedTokens[owner][i]]

\* what the recipient of a mint does in onERC721Received: it calls
\* mintPokemon for the first account of `reenter`, whose callback does the
\* same with the rest, and then accepts the token or reverts.  Only an
\* account with code is called back.
RECURSIVE ReenterChains(_)
ReenterChains(depth) ==
    IF depth = 0 THEN {<<>>}
    ELSE {<<>>} \cup {<<to>> \o rest : to \in Traders,
                       rest \in ReenterChains(depth - 1)}

Callbacks(to) ==
    IF to \in CodeAccounts
    THEN {[accepts |-> a, reenter |-> r] :
            a \in BOOLEAN,
            r \in {c \in ReenterChains(MaxReentrancy) :
                     \A k \in 1..(Len(c) - 1) : c[k] \in CodeAccounts}}
    ELSE {[accepts |-> TRUE, reenter |-> <<>>]}

\* mutant of Increment: the counter stays
IncrementStuck(counter) == counter

\* Counters.increment
Increment(counter) == counter + 1

\* pokemonDetails[newTokenId] = Pokemon({...})
StoreDetails(details, tokenId) == [details EXCEPT ![tokenId] = TRUE]

\* mintPokemon(to) of depth `depth` run on the registry reg, a record of
\* tokenIds, owners, ownedTokens, pokemonDetails and issued, and of views,
\* the registry as each recipient callback found it (what ownerOf,
\* getTokensOfOwner and getPokemonDetails return inside the callback).
\* The counter is incremented and read, _safeMint mints the token and then
\* calls the recipient back, the callback may mint again before this call
\* has returned, and the details are stored after _safeMint has returned.
RECURSIVE MintPokemonOn(_, _, _, _)
MintPokemonOn(reg, to, reenter, depth) ==
    LET counter == Increment(reg.tokenIds)
        newTokenId == counter
        minted ==
            [reg EXCEPT
                !.tokenIds = counter,
                !.owners = [reg.owners EXCEPT ![newTokenId] = to],
                !.ownedTokens =
                    AddTokenToOwnerEnumeration(reg.ownedTokens, to, newTokenId),
                !.issued = Append(reg.issued,
                                  [id |-> newTokenId, depth |-> depth])]
        called ==
            [minted EXCEPT
                !.views = Append(@, [tokenId |-> newTokenId,
                                     owners |-> minted.owners,
                                     ownedTokens |-> minted.ownedTokens,
                                     pokemonDetails |-> minted.pokemonDetails])]
        Stored(r) ==
            [r EXCEPT !.pokemonDetails = StoreDetails(@, newTokenId)]
    IN  IF to = Zero THEN [result |-> "ZeroAddress", reg |-> reg]
        ELSE IF newTokenId \in DOMAIN reg.owners /\ reg.owners[newTokenId] # Zero
             THEN [result |-> "AlreadyMinted", reg |-> reg]
        ELSE IF to \notin CodeAccounts
             THEN [result |-> "ok", reg |-> Stored(minted)]
        ELSE IF reenter = <<>>
             THEN [result |-> "ok", reg |-> Stored(called)]
        ELSE LET nested == MintPokemonOn(called, Head(reenter), Tail(reenter),
                                         depth + 1)
             IN  IF nested.result = "ok"
                 THEN [result |-> "ok", reg |-> Stored(nested.reg)]
                 ELSE [result |-> nested.result, reg |-> reg]

\* the tokens one mintPokemon call with this callback mints
MintCount(callback) == 1 + Len(callback.reenter)

MintPokemonResult(to, callback) ==
    LET reg == [tokenIds |-> tokenIds, owners |-> owners,
                ownedTokens |-> ownedTokens,
                pokemonDetails |-> pokemonDetails, issued |-> issued,
                views |-> <<>>]
        mint == MintPokemonOn(reg, to, callback.reenter, 0)
    IN  IF mint.result # "ok" THEN mint
        ELSE IF ~callback.accepts
             THEN [result |-> "ReceiverRejected", reg |-> reg]
        ELSE mint

MintPokemon(caller, to, callback) ==
    LET mint == MintPokemonResult(to, callback)
    IN  /\ Returned("mintPokemon", mint.result)
        /\ IF mint.result = "ok"
           THEN /\ tokenIds' = mint.reg.tokenIds
                /\ owners' = mint.reg.owners
                /\ ownedTokens' = mint.reg.ownedTokens
                /\ pokemonDetails' = mint.reg.pokemonDetails
                /\ issued' = mint.reg.issued
                /\ UNCHANGED <<tokenApprovals, operatorApprovals, market,
                               balance>>
           ELSE UNCHANGED chain

\* getPokemonDetails: a revert for a token that does not exist, else the
\* stored details, which are the zero value until mintPokemon stores them
GetPokemonDetails(tokenId) ==
    IF ~TokenExists(tokenId) THEN "UnknownAsset"
    ELSE IF pokemonDetails[tokenId] THEN "details" ELSE "blank"

ApproveResult(caller, to, tokenId) ==
    IF ~TokenExists(tokenId) THEN "UnknownAsset"
    ELSE IF to = owners[tokenId] THEN "ApproveOwner"
    ELSE IF ~(caller = owners[tokenId]
              \/ IsApprovedForAll(owners[tokenId], caller)) THEN "NotOwner"
    ELSE "ok"

Approve(caller, to, tokenId) ==
    LET r == ApproveResult(caller, to, tokenId)
    IN  /\ Returned("approve", r)
        /\ IF r = "ok"
           THEN /\ tokenApprovals' = [tokenApprovals EXCEPT ![tokenId] = to]
                /\ UNCHANGED <<tokenIds, owners, operatorApprovals,
                               ownedTokens, pokemonDetails, issued, market,
                               balance>>
           ELSE UNCHANGED chain

SetApprovalForAllResult(caller, operator) ==
    IF caller = operator THEN "ApproveToCaller" ELSE "ok"

\* ERC721.setApprovalForAll
SetApprovalForAll(caller, operator, approved) ==
    LET r == SetApprovalForAllResult(caller, operator)
    IN  /\ Returned("setApprovalForAll", r)
        /\ IF r = "ok"
           THEN /\ operatorApprovals' =
                     IF approved
                     THEN operatorApprovals \cup {<<caller, operator>>}
                     ELSE operatorApprovals \ {<<caller, operator>>}
                /\ UNCHANGED <<tokenIds, owners, tokenApprovals, ownedTokens,
                               issued, pokemonDetails, market, balance>>
           ELSE UNCHANGED chain

TransferFrom(caller, from, to, tokenId) ==
    LET r == RegistryTransferResult(caller, from, to, tokenId)
    IN  /\ Returned("transferFrom", r)
        /\ IF r = "ok"
           THEN /\ owners' = OwnersAfter(NFT, to, tokenId)
                /\ tokenApprovals' = ApprovalsAfter(NFT, tokenId)
                /\ ownedTokens' = OwnedTokensAfter(NFT, to, tokenId)
                /\ UNCHANGED <<tokenIds, operatorApprovals, pokemonDetails,
                               issued, market, balance>>
           ELSE UNCHANGED chain

\* ---------------------------------------------------- PokemonMarketplace
\* a transfer of `amount` wei from one account to another
Pay(bal, from, to, amount) ==
    [a \in Accounts |->
        bal[a] - (IF a = from THEN amount ELSE 0)
               + (IF a = to THEN amount ELSE 0)]

\* mutant of NewMarketItem: the seller is stored as the owner
NewMarketItemOwnedBySeller(itemId, nft, tokenId, seller, price) ==
    [itemId |-> itemId, nftContract |-> nft, tokenId |-> tokenId,
     seller |-> seller, owner |-> seller, price |-> price, sold |-> FALSE]

\* the struct createMarketItem stores
\* mutant of NewMarketItem: the record does not carry its id
NewMarketItemWithoutId(itemId, nft, tokenId, seller, price) ==
    [itemId |-> 0, nftContract |-> nft, tokenId |-> tokenId,
     seller |-> seller, owner |-> Zero, price |-> price, sold |-> FALSE]

NewMarketItem(itemId, nft, tokenId, seller, price) ==
    [itemId |-> itemId, nftContract |-> nft, tokenId |-> tokenId,
     seller |-> seller, owner |-> Zero, price |-> price, sold |-> FALSE]

\* mutant of CreateMarketItemResult: the price is not checked
CreateMarketItemResultNoPriceCheck(caller, nft, tokenId, price) ==
    TransferResult(nft, Market, caller, Market, tokenId)

CreateMarketItemResult(caller, nft, tokenId, price) ==
    IF ~(price > 0) THEN "InvalidPrice"
    ELSE TransferResult(nft, Market, caller, Market, tokenId)

CreateMarketItem(caller, nft, tokenId, price) ==
    LET r == CreateMarketItemResult(caller, nft, tokenId, price)
        itemId == Increment(itemIds)
    IN  /\ Returned("createMarketItem", r)
        /\ IF r = "ok"
           THEN /\ itemIds' = itemId
                /\ idToMarketItem' =
                     [idToMarketItem EXCEPT ![itemId] =
                         NewMarketItem(itemId, nft, tokenId, caller, price)]
                /\ owners' = OwnersAfter(nft, Market, tokenId)
                /\ tokenApprovals' = ApprovalsAfter(nft, tokenId)
                /\ ownedTokens' = OwnedTokensAfter(nft, Market, tokenId)
                /\ UNCHANGED <<tokenIds, operatorApprovals, pokemonDetails,
                               issued, itemsSold, listingFeePercentage,
                               marketplaceOwner, balance>>
           ELSE UNCHANGED chain

\* mutant of ListingFee: the quotient is rounded up
ListingFeeRoundedUp(price, percentage) ==
    (price * percentage + PERCENTAGE_DENOMINATOR - 1) \div PERCENTAGE_DENOMINATOR

ListingFee(price, percentage) ==
    (price * percentage) \div PERCENTAGE_DENOMINATOR

\* mutant of SellerProceeds: the fee is not withheld
SellerProceedsWholePrice(price, percentage) == price

SellerProceeds(price, percentage) == price - ListingFee(price, percentage)

\* mutant of SaleChecks: the sold flag is not checked
SaleChecksNoSoldCheck(item, value) ==
    IF value # item.price THEN "WrongPrice" ELSE "ok"

\* mutant of SaleChecks: any payment of at least the price is accepted
SaleChecksAtLeastPrice(item, value) ==
    IF value < item.price THEN "WrongPrice"
    ELSE IF item.sold # FALSE THEN "AlreadySold"
    ELSE "ok"

\* the requires of createMarketSale, in the order the code evaluates them
SaleChecks(item, value) ==
    IF value # item.price THEN "WrongPrice"
    ELSE IF item.sold # FALSE THEN "AlreadySold"
    ELSE "ok"

\* mutant of CreateMarketSaleResult: the success flag of the payment to the
\* seller is not required
CreateMarketSaleResultUncheckedPayment(caller, nft, itemId, value, accepts) ==
    LET item == idToMarketItem[itemId]
        c == SaleChecks(item, value)
        t == TransferResult(nft, Market, Market, caller, item.tokenId)
    IN  IF c # "ok" THEN c ELSE t

CreateMarketSaleResult(caller, nft, itemId, value, accepts) ==
    LET item == idToMarketItem[itemId]
        c == SaleChecks(item, value)
        t == TransferResult(nft, Market, Market, caller, item.tokenId)
    IN  IF c # "ok" THEN c
        ELSE IF t # "ok" THEN t
        ELSE IF ~accepts THEN "TransferFailed"
        ELSE "ok"

\* mutant of SoldItem: the owner is written, the sold flag is not
SoldItemOwnerOnly(item, buyer) == [item EXCEPT !.owner = buyer]

\* the item after the sale was recorded
SoldItem(item, buyer) == [item EXCEPT !.owner = buyer, !.sold = TRUE]

\* the calls createMarketSale makes to code outside the marketplace, in the
\* order it makes them, each with the record of the item as it is stored
\* (and as every fetch function returns it) at the time of the call: the
\* transferFrom of the asset contract, then the payment to the seller
CreateMarketSaleCallouts(caller, nft, itemId) ==
    LET item == idToMarketItem[itemId]
    IN  << [call |-> "transferFrom", to |-> nft, item |-> item],
           [call |-> "payment", to |-> item.seller,
            item |-> SoldItem(item, caller)] >>

\* the functions that carry the nonReentrant modifier
NonReentrant(op) ==
    op \in {"createMarketItem", "createMarketSale", "cancelMarketItem"}

\* what the seller's account does when the payment of a sale reaches it: it
\* may call one function of the marketplace, and it accepts the payment or
\* reverts.  A call is the name of the function and, for
\* updateListingFeePercentage, the argument.
NoCall == [op |-> "none", arg |-> 0]

NestedCalls ==
    {NoCall, [op |-> "withdrawFees", arg |-> 0]}
    \cup {[op |-> "updateListingFeePercentage", arg |-> p] : p \in FeeInputs}
    \cup {[op |-> f, arg |-> 0] :
            f \in {"createMarketItem", "createMarketSale", "cancelMarketItem"}}

Plain(accepts) == [accepts |-> accepts, nested |-> NoCall]

Receives(a) ==
    IF a \in CodeAccounts
    THEN {[accepts |-> x, nested |-> c] : x \in BOOLEAN, c \in NestedCalls}
    ELSE {Plain(TRUE)}

\* mutant of OnlyOwner: every caller is let through
OnlyOwnerAnyone(caller) == TRUE

\* Ownable.onlyOwner
OnlyOwner(caller) == caller = marketplaceOwner

\* mutant of FeeAllowed: the cap is the denominator
FeeAllowedUpToDenominator(percentage) == percentage <= PERCENTAGE_DENOMINATOR

FeeAllowed(percentage) == percentage <= MaxListingFeePercentage

UpdateListingFeePercentageResult(caller, percentage) ==
    IF ~OnlyOwner(caller) THEN "Unauthorized"
    ELSE IF ~FeeAllowed(percentage) THEN "FeeTooHigh"
    ELSE "ok"

\* the requires of withdrawFees when the marketplace holds marketBalance
WithdrawFeesResultOn(marketBalance, caller, accepts) ==
    IF ~OnlyOwner(caller) THEN "Unauthorized"
    ELSE IF ~(marketBalance > 0) THEN "NothingToWithdraw"
    ELSE IF ~accepts THEN "TransferFailed"
    ELSE "ok"

\* a call of the marketplace made by `caller` from inside the payment of a
\* sale, when the fee is listingFeePercentage and the balances are bal: a
\* function with the nonReentrant modifier reverts, the other two run
NestedCallOn(percentage, bal, caller, call) ==
    LET r == IF call.op = "none" THEN "none"
             ELSE IF NonReentrant(call.op) THEN "ReentrantCall"
             ELSE IF call.op = "updateListingFeePercentage"
                  THEN UpdateListingFeePercentageResult(caller, call.arg)
             ELSE WithdrawFeesResultOn(bal[Market], caller, TRUE)
    IN  [result |-> r,
         listingFeePercentage |->
            IF r = "ok" /\ call.op = "updateListingFeePercentage"
            THEN call.arg ELSE percentage,
         balance |->
            IF r = "ok" /\ call.op = "withdrawFees"
            THEN Pay(bal, Market, marketplaceOwner, bal[Market]) ELSE bal]

CreateMarketSale(caller, nft, itemId, value, receive) ==
    /\ balance[caller] >= value
    /\ LET r == CreateMarketSaleResult(caller, nft, itemId, value,
                                       receive.accepts)
           item == idToMarketItem[itemId]
           sellerProceeds == SellerProceeds(item.price, listingFeePercentage)
           callouts == CreateMarketSaleCallouts(caller, nft, itemId)
           paid == Pay(Pay(balance, caller, Market, value),
                       Market, item.seller, sellerProceeds)
           nested == NestedCallOn(listingFeePercentage, paid, item.seller,
                                  receive.nested)
       IN  /\ Returned("createMarketSale", r)
           /\ IF r = "ok"
              THEN /\ owners' = OwnersAfter(nft, caller, item.tokenId)
                   /\ tokenApprovals' = ApprovalsAfter(nft, item.tokenId)
                   /\ ownedTokens' = OwnedTokensAfter(nft, caller, item.tokenId)
                   /\ idToMarketItem' =
                        [idToMarketItem EXCEPT
                            ![itemId] = callouts[Len(callouts)].item]
                   /\ itemsSold' = itemsSold + 1
                   /\ listingFeePercentage' = nested.listingFeePercentage
                   /\ balance' = nested.balance
                   /\ UNCHANGED <<tokenIds, operatorApprovals, issued,
                                  pokemonDetails, itemIds, marketplaceOwner>>
              ELSE UNCHANGED chain

\* mutant of CancelChecks: the caller is not compared with the seller
CancelChecksAnyCaller(item, caller) ==
    IF item.sold THEN "AlreadySold" ELSE "ok"

\* the requires of cancelMarketItem
CancelChecks(item, caller) ==
    IF item.seller # caller THEN "NotSeller"
    ELSE IF item.sold THEN "AlreadySold"
    ELSE "ok"

CancelMarketItemResult(caller, itemId) ==
    LET item == idToMarketItem[itemId]
        c == CancelChecks(item, caller)
    IN  IF c # "ok" THEN c
        ELSE TransferResult(item.nftContract, Market, Market, caller,
                            item.tokenId)

CancelMarketItem(caller, itemId) ==
    LET r == CancelMarketItemResult(caller, itemId)
        item == idToMarketItem[itemId]
    IN  /\ Returned("cancelMarketItem", r)
        /\ IF r = "ok"
           THEN /\ owners' = OwnersAfter(item.nftContract, caller, item.tokenId)
                /\ tokenApprovals' = ApprovalsAfter(item.nftContract, item.tokenId)
                /\ ownedTokens' =
                     OwnedTokensAfter(item.nftContract, caller, item.tokenId)
                /\ idToMarketItem' = [idToMarketItem EXCEPT ![itemId] = BlankItem]
                /\ UNCHANGED <<tokenIds, operatorApprovals, pokemonDetails,
                               issued, itemIds, itemsSold,
                               listingFeePercentage, marketplaceOwner, balance>>
           ELSE UNCHANGED chain

UpdateListingFeePercentage(caller, percentage) ==
    LET r == UpdateListingFeePercentageResult(caller, percentage)
    IN  /\ Returned("updateListingFeePercentage", r)
        /\ IF r = "ok"
           THEN /\ listingFeePercentage' = percentage
                /\ UNCHANGED <<registry, itemIds, itemsSold, idToMarketItem,
                               marketplaceOwner, balance>>
           ELSE UNCHANGED chain

\* mutant of WithdrawFeesResult: an empty balance is withdrawn as well
WithdrawFeesResultNoBalanceCheck(caller, accepts) ==
    IF ~OnlyOwner(caller) THEN "Unauthorized"
    ELSE IF ~accepts THEN "TransferFailed"
    ELSE "ok"

WithdrawFeesResult(caller, accepts) ==
    WithdrawFeesResultOn(balance[Market], caller, accepts)

WithdrawFees(caller, accepts) ==
    LET r == WithdrawFeesResult(caller, accepts)
    IN  /\ Returned("withdrawFees", r)
        /\ IF r = "ok"
           THEN /\ balance' = Pay(balance, Market, marketplaceOwner,
                                  balance[Market])
                /\ UNCHANGED <<registry, market>>
           ELSE UNCHANGED chain

TransferOwnershipResult(caller, newOwner) ==
    IF ~OnlyOwner(caller) THEN "Unauthorized"
    ELSE IF newOwner = Zero THEN "ZeroAddress"
    ELSE "ok"

\* Ownable.transferOwnership
TransferOwnership(caller, newOwner) ==
    LET r == TransferOwnershipResult(caller, newOwner)
    IN  /\ Returned("transferOwnership", r)
        /\ IF r = "ok"
           THEN /\ marketplaceOwner' = newOwner
                /\ UNCHANGED <<registry, itemIds, itemsSold, idToMarketItem,
                               listingFeePercentage, balance>>
           ELSE UNCHANGED chain

\* ------------------------------------------------------------ view calls
\* the loop of the fetch functions: the records of the slots lo..hi,
\* ascending, whose `field` is `address`
RECURSIVE Scan(_, _, _, _)
Scan(lo, hi, field, address) ==
    IF lo > hi THEN <<>>
    ELSE (IF idToMarketItem[lo][field] = address
          THEN <<idToMarketItem[lo]>> ELSE <<>>)
         \o Scan(lo + 1, hi, field, address)

Blanks(n) == [k \in 1..n |-> BlankItem]

\* fetchMarketItems: the array has itemIds - itemsSold elements (a checked
\* subtraction) and is filled, from index 0, with every record of
\* 1..itemIds whose owner is address(0); a write past the end reverts
FetchMarketItems ==
    LET found == Scan(1, itemIds, "owner", Zero)
        unsoldItemCount == itemIds - itemsSold
    IN  IF itemsSold > itemIds \/ Len(found) > unsoldItemCount
        THEN [reverts |-> TRUE, items |-> <<>>]
        ELSE [reverts |-> FALSE,
              items |-> found \o Blanks(unsoldItemCount - Len(found))]

FetchMyNFTs(caller) ==
    Scan(1, itemIds, "owner", caller)

\* mutant of FetchItemsListed: the items already sold are left out
FetchItemsListedUnsoldOnly(caller) ==
    SelectSeq(Scan(1, itemIds, "seller", caller), LAMBDA item : ~item.sold)

FetchItemsListed(caller) ==
    Scan(1, itemIds, "seller", caller)

Next ==
    \/ \E caller \in Traders, to \in MintTargets :
          \E callback \in Callbacks(to) :
             /\ tokenIds + MintCount(callback) <= MaxTokens
             /\ MintPokemon(caller, to, callback)
    \/ \E caller \in Traders, to \in ApproveTargets, t \in TokenIds :
          Approve(caller, to, t)
    \/ \E caller \in Traders, from \in Traders, to \in TransferTargets,
          t \in TokenIds : TransferFrom(caller, from, to, t)
    \/ \E caller \in Sellers, nft \in NftContracts, t \in TokenIds,
          price \in Prices :
          /\ itemIds < MaxItems
          /\ CreateMarketItem(caller, nft, t, price)
    \/ \E caller \in Buyers, nft \in NftContracts, i \in ItemSlots,
          value \in Payments :
          \E accepts \in ReceiveOutcomes(idToMarketItem[i].seller) :
             CreateMarketSale(caller, nft, i, value, Plain(accepts))
    \/ \E caller \in Traders, i \in ItemSlots : CancelMarketItem(caller, i)
    \/ \E caller \in Users, p \in FeeInputs :
          UpdateListingFeePercentage(caller, p)
    \/ \E caller \in Users :
          \E accepts \in ReceiveOutcomes(marketplaceOwner) :
             WithdrawFees(caller, accepts)

Spec == Init /\ [][Next]_vars

\* the registry alone
RegistryNext ==
    \/ \E caller \in Traders, to \in MintTargets :
          \E callback \in Callbacks(to) :
             /\ tokenIds + MintCount(callback) <= MaxRegistryTokens
             /\ MintPokemon(caller, to, callback)
    \/ \E caller \in Traders, to \in RegistryApproveTargets,
          t \in RegistryTokenIds : Approve(caller, to, t)
    \/ \E caller \in Traders, operator \in Traders, approved \in BOOLEAN :
          SetApprovalForAll(caller, operator, approved)
    \/ \E caller \in Traders, from \in Traders, to \in TransferTargets,
          t \in RegistryTokenIds : TransferFrom(caller, from, to, t)

RegistrySpec == Init /\ [][RegistryNext]_vars

\* the marketplace without its fee functions, with room for more items
EscrowNext ==
    \/ \E caller \in Traders, to \in MintTargets :
          \E callback \in Callbacks(to) :
             /\ tokenIds + MintCount(callback) <= MaxTokens
             /\ MintPokemon(caller, to, callback)
    \/ \E caller \in Traders, to \in ApproveTargets, t \in TokenIds :
          Approve(caller, to, t)
    \/ \E caller \in Traders, from \in Traders, to \in TransferTargets,
          t \in TokenIds : TransferFrom(caller, from, to, t)
    \/ \E caller \in Sellers, nft \in NftContracts, t \in TokenIds,
          price \in Prices :
          /\ itemIds < MaxEscrowItems
          /\ CreateMarketItem(caller, nft, t, price)
    \/ \E caller \in Buyers, nft \in NftContracts, i \in MarketItemIds,
          value \in Payments :
          \E accepts \in ReceiveOutcomes(idToMarketItem[i].seller) :
             CreateMarketSale(caller, nft, i, value, Plain(accepts))
    \/ \E caller \in Traders, i \in MarketItemIds : CancelMarketItem(caller, i)

EscrowSpec == Init /\ [][EscrowNext]_vars

\* the marketplace with an owner that can change and sellers that call the
\* marketplace back when they are paid
ReentrancyNext ==
    \/ \E caller \in Traders, to \in MintTargets :
          \E callback \in Callbacks(to) :
             /\ tokenIds + MintCount(callback) <= MaxTokens
             /\ MintPokemon(caller, to, callback)
    \/ \E caller \in Traders, to \in ApproveTargets, t \in TokenIds :
          Approve(caller, to, t)
    \/ \E caller \in Sellers, nft \in NftContracts, t \in TokenIds,
          price \in Prices :
          /\ itemIds < MaxItems
          /\ CreateMarketItem(caller, nft, t, price)
    \/ \E caller \in Buyers, nft \in NftContracts, i \in ItemSlots,
          value \in Payments :
          \E receive \in Receives(idToMarketItem[i].seller) :
             CreateMarketSale(caller, nft, i, value, receive)
    \/ \E caller \in Users, newOwner \in OwnerTargets :
          TransferOwnership(caller, newOwner)
    \/ \E caller \in Users, p \in FeeInputs :
          UpdateListingFeePercentage(caller, p)
    \/ \E caller \in Users :
          \E accepts \in ReceiveOutcomes(marketplaceOwner) :
             WithdrawFees(caller, accepts)

ReentrancySpec == Init /\ [][ReentrancyNext]_vars

\* ================================================================ claims
\* what the specification calls a record that exists
ItemRecorded(i) == idToMarketItem[i] # BlankItem
ItemUnsold(i)   == ItemRecorded(i) /\ ~idToMarketItem[i].sold

TotalBalance(bal) ==
    bal[Admin] + bal[Seller] + bal[Buyer] + bal[Market] + bal[Zero]

\* the step is a call of op that ended with result r
Called(op, r) == last'.op = op /\ last'.result = r

\* C1: a successful createMarketSale by buyer B on an existing unsold item,
\* paid at the item's price, records owner = B and sold = TRUE, makes B the
\* registry owner of the item's asset, and pays the seller
\* price - floor(price * listingFeePercentage / 10000).
C1_SaleTransfersAndPays ==
    [][Called("createMarketSale", "ok") =>
        \A c \in Buyers, n \in NftContracts, i \in ItemSlots, v \in Payments :
          ( /\ ItemUnsold(i)
            /\ v = idToMarketItem[i].price
            /\ CreateMarketSale(c, n, i, v, Plain(TRUE)) )
          => LET item == idToMarketItem[i]
                 fee  == (item.price * listingFeePercentage) \div 10000
             IN  /\ idToMarketItem'[i].owner = c
                 /\ idToMarketItem'[i].sold = TRUE
                 /\ (item.nftContract = NFT => owners'[item.tokenId] = c)
                 /\ balance'[item.seller] =
                       balance[item.seller] + (item.price - fee)
                       - (IF item.seller = c THEN item.price ELSE 0)
      ]_vars

C3_SoldIsTerminal ==
    /\ [](\A i \in ItemSlots :
            idToMarketItem[i].sold =>
              /\ \A c \in Users, n \in NftContracts, v \in Payments, a \in BOOLEAN :
                    /\ CreateMarketSaleResult(c, n, i, v, a) # "ok"
                    /\ (v = idToMarketItem[i].price =>
                          CreateMarketSaleResult(c, n, i, v, a) = "AlreadySold")
              /\ \A c \in Users : CancelMarketItemResult(c, i) # "ok")
    /\ [][/\ (last'.op \in {"createMarketSale", "cancelMarketItem"}
                /\ last'.result # "ok") => UNCHANGED chain
          /\ \A i \in ItemSlots :
                (idToMarketItem[i].sold /\ idToMarketItem[i].itemId = i)
                   => idToMarketItem'[i] = idToMarketItem[i]
         ]_vars

C3_Witness ==
    /\ last = [op |-> "createMarketSale", result |-> "AlreadySold"]
    /\ \E i \in ItemSlots :
          /\ idToMarketItem[i].itemId = i
          /\ idToMarketItem[i].nftContract = NFT
          /\ idToMarketItem[i].sold
          /\ idToMarketItem[i].owner = Buyer
          /\ balance[Buyer] >= idToMarketItem[i].price

\* C4: createMarketSale on an existing unsold item with a payment that is
\* not the item's price, lower or higher, fails WrongPrice and changes
\* nothing: the item stays unsold, the asset in escrow, every balance as is.
C4_WrongPriceRejected ==
    /\ [](\A c \in Users, n \in NftContracts, i \in ItemSlots, v \in Payments,
             a \in BOOLEAN :
             (ItemUnsold(i) /\ v # idToMarketItem[i].price)
                => CreateMarketSaleResult(c, n, i, v, a) = "WrongPrice")
    /\ [][Called("createMarketSale", "WrongPrice") => UNCHANGED chain]_vars

C4_Witness ==
    /\ last = [op |-> "createMarketSale", result |-> "WrongPrice"]
    /\ \E i \in ItemSlots :
          /\ ItemUnsold(i)
          /\ idToMarketItem[i].nftContract = NFT
          /\ owners[idToMarketItem[i].tokenId] = Market
          /\ balance[Buyer] > idToMarketItem[i].price

\* C5: createMarketSale on an itemId that has no record fails, for every
\* caller, payment and nftContract argument, and changes no ledger state.
C5_SaleOfMissingItemFails ==
    [][last'.op = "createMarketSale" =>
        \A c \in Buyers, n \in NftContracts, i \in ItemSlots, v \in Payments,
           a \in BOOLEAN :
           (~ItemRecorded(i) /\ CreateMarketSale(c, n, i, v, Plain(a)))
              => (last'.result # "ok" /\ UNCHANGED chain)
      ]_vars

\* C6: a successful createMarketItem by S for a registry asset S owns, with
\* price > 0 and the marketplace approved, allocates the next itemId, stores
\* the record (seller = S, owner = address(0), sold = FALSE, the price) and
\* makes the marketplace the registry owner of the asset.
C6_ListingStoresRecordAndEscrows ==
    [][Called("createMarketItem", "ok") =>
        \A c \in Sellers, t \in TokenIds, p \in Prices :
          ( /\ owners[t] = c
            /\ tokenApprovals[t] = Market
            /\ p > 0
            /\ CreateMarketItem(c, NFT, t, p) )
          => /\ itemIds' = itemIds + 1
             /\ idToMarketItem'[itemIds'] =
                  [itemId |-> itemIds + 1, nftContract |-> NFT, tokenId |-> t,
                   seller |-> c, owner |-> Zero, price |-> p, sold |-> FALSE]
             /\ \A j \in ItemSlots \ {itemIds'} :
                   idToMarketItem'[j] = idToMarketItem[j]
             /\ owners'[t] = Market
      ]_vars

C6_Witness ==
    /\ last = [op |-> "createMarketItem", result |-> "ok"]
    /\ itemIds = 2
    /\ idToMarketItem[2] =
          [itemId |-> 2, nftContract |-> NFT, tokenId |-> 1, seller |-> Seller,
           owner |-> Zero, price |-> 50, sold |-> FALSE]
    /\ owners[1] = Market

\* C7: escrow invariant: for every record that exists and is unsold the
\* registry owner of the asset it refers to is the marketplace.  Stated for
\* the records whose nftContract is the registry itself, the reading most
\* favourable to the code.
C7_UnsoldItemsAreEscrowed ==
    \A i \in ItemSlots :
        (ItemUnsold(i) /\ idToMarketItem[i].nftContract = NFT)
            => OwnerOf(idToMarketItem[i].tokenId) = Market

\* C8: after a successful cancelMarketItem of an unsold item of the
\* registry by its seller, the asset is the seller's again and no fetch view
\* has an entry for the item, not even a blank one.
C8_CancelRemovesFromViews ==
    [][Called("cancelMarketItem", "ok") =>
        \A c \in Traders, i \in ItemSlots :
          ( /\ idToMarketItem[i].nftContract = NFT
            /\ CancelMarketItem(c, i) )
          => LET item == idToMarketItem[i]
                 Clean(items) ==
                    \A k \in 1..Len(items) :
                        items[k].itemId # i /\ items[k] # BlankItem
             IN  /\ owners'[item.tokenId] = item.seller
                 /\ ~FetchMarketItems'.reverts
                 /\ Clean(FetchMarketItems'.items)
                 /\ \A u \in Users : Clean(FetchMyNFTs(u)')
                 /\ \A u \in Users : Clean(FetchItemsListed(u)')
      ]_vars

\* C9: cancelMarketItem by anyone but the item's seller fails NotSeller and
\* changes nothing: the record, the escrow and the counters stay as they are.
C9_OnlySellerCancels ==
    /\ [](\A c \in Users, i \in ItemSlots :
             c # idToMarketItem[i].seller
                => CancelMarketItemResult(c, i) = "NotSeller")
    /\ [][Called("cancelMarketItem", "NotSeller") => UNCHANGED chain]_vars

C9_Witness ==
    /\ last = [op |-> "cancelMarketItem", result |-> "NotSeller"]
    /\ \E i \in ItemSlots :
          /\ ItemUnsold(i)
          /\ idToMarketItem[i].seller = Seller
          /\ idToMarketItem[i].nftContract = NFT
          /\ owners[idToMarketItem[i].tokenId] = Market

\* C10: listingFeePercentage starts at 250 and never exceeds 1000; an update
\* by the admin above 1000 fails FeeTooHigh and keeps the value, an update
\* by the admin up to 1000 replaces the value with the new one.
C10_FeeBounded ==
    /\ listingFeePercentage = 250
    /\ [](listingFeePercentage <= 1000)
    /\ [](\A p \in 0..1100 :
            UpdateListingFeePercentageResult(Admin, p) =
               IF p > 1000 THEN "FeeTooHigh" ELSE "ok")
    /\ [][last'.op = "updateListingFeePercentage" =>
            /\ last'.result = "FeeTooHigh" => UNCHANGED chain
            /\ \A p \in FeeInputs :
                  (p <= 1000 /\ UpdateListingFeePercentage(Admin, p))
                     => listingFeePercentage' = p
        ]_vars

C10_Witness ==
    /\ last = [op |-> "updateListingFeePercentage", result |-> "FeeTooHigh"]
    /\ listingFeePercentage = 1000

\* C11: updateListingFeePercentage and withdrawFees called by anyone but the
\* admin fail Unauthorized, and every step that changes
\* listingFeePercentage or lowers the marketplace's balance is a call by the
\* admin.
C11_PrivilegedOperationsAdminOnly ==
    /\ [](\A c \in Users \ {Admin} :
            /\ \A a \in BOOLEAN : WithdrawFeesResult(c, a) = "Unauthorized"
            /\ \A p \in FeeInputs :
                  UpdateListingFeePercentageResult(c, p) = "Unauthorized")
    /\ [][/\ (last'.result = "Unauthorized") => UNCHANGED chain
          /\ (listingFeePercentage' # listingFeePercentage)
                => \E p \in FeeInputs : UpdateListingFeePercentage(Admin, p)
          /\ (balance'[Market] < balance[Market]) => WithdrawFees(Admin, TRUE)
         ]_vars

C11_Witness ==
    /\ last = [op |-> "withdrawFees", result |-> "Unauthorized"]
    /\ balance[Market] > 0
    /\ listingFeePercentage # InitialListingFeePercentage

Occurrences(items, i) ==
    Cardinality({k \in 1..Len(items) : items[k].itemId = i})

\* C14: after a successful createMarketItem the new item is exactly once in
\* fetchMarketItems; after a successful createMarketSale of an existing
\* unsold item by buyer B the item is not in fetchMarketItems and is exactly
\* once in fetchMyNFTs of B, whatever else was created, sold or cancelled.
C14_ViewsFollowListingAndSale ==
    [][/\ Called("createMarketItem", "ok") =>
            /\ ~FetchMarketItems'.reverts
            /\ Occurrences(FetchMarketItems'.items, itemIds') = 1
       /\ Called("createMarketSale", "ok") =>
            \A i \in ItemSlots :
               (ItemUnsold(i) /\ idToMarketItem[i].itemId = i
                    /\ idToMarketItem'[i].sold)
               => /\ ~FetchMarketItems'.reverts
                  /\ Occurrences(FetchMarketItems'.items, i) = 0
                  /\ \E b \in Users :
                        /\ b = idToMarketItem'[i].owner
                        /\ Occurrences(FetchMyNFTs(b)', i) = 1
      ]_vars

C16_MintedIdsIncrease ==
    /\ Len(issued) > 0 => issued[1].id = 1
    /\ \A j, k \in 1..Len(issued) : j < k => issued[j].id < issued[k].id
    /\ \A j, k \in 1..Len(issued) : issued[j].id = issued[k].id => j = k
    /\ \A k \in 1..Len(issued) : TokenExists(issued[k].id)

C16_Witness ==
    /\ last = [op |-> "mintPokemon", result |-> "ok"]
    /\ Len(issued) = 3
    /\ issued[1].depth = 0
    /\ issued[2].depth = 0
    /\ issued[3].depth = 1

C18_OwnedTokensInMintOrder ==
    \A x \in Accounts \ {Zero} :
        LET list == GetTokensOfOwner(x)
        IN  \A j, k \in 1..Len(list) : j < k => list[j] < list[k]

\* C19: a transferFrom of an existing token requested by an identity that
\* is neither the token's owner nor its approved address fails, and so does
\* one whose `from` is not the owner; a failed transferFrom changes nothing.
C19_UnauthorisedTransferFails ==
    /\ [](\A c \in Traders, from \in Traders, to \in TransferTargets,
             t \in RegistryTokenIds :
             (TokenExists(t)
                /\ ( \/ (c # owners[t] /\ c # tokenApprovals[t])
                     \/ from # owners[t] ))
             => RegistryTransferResult(c, from, to, t) # "ok")
    /\ [][(last'.op = "transferFrom" /\ last'.result # "ok")
             => UNCHANGED chain]_vars

\* C20: a createMarketItem that fails leaves the whole state as it was: it
\* fails InvalidPrice for a price of zero, NotApproved when the marketplace
\* may not move the registry token, NotOwner when it may but the caller is
\* not the token's owner; no record is stored, no itemId is used up and
\* the token's owner stays.
C20_FailedListingChangesNothing ==
    /\ [](\A c \in Users, n \in NftContracts, t \in TokenIds :
             CreateMarketItemResult(c, n, t, 0) = "InvalidPrice")
    /\ [](\A c \in Users, t \in TokenIds, p \in Prices \ {0} :
             TokenExists(t) =>
                LET marketMayMove ==
                       \/ owners[t] = Market
                       \/ tokenApprovals[t] = Market
                       \/ <<owners[t], Market>> \in operatorApprovals
                IN  /\ ~marketMayMove
                       => CreateMarketItemResult(c, NFT, t, p) = "NotApproved"
                    /\ (marketMayMove /\ owners[t] # c)
                       => CreateMarketItemResult(c, NFT, t, p) = "NotOwner")
    /\ [][(last'.op = "createMarketItem" /\ last'.result # "ok")
             => UNCHANGED chain]_vars

C20_Witness ==
    /\ last = [op |-> "createMarketItem", result |-> "NotOwner"]
    /\ itemIds = 1
    /\ ItemUnsold(1)
    /\ idToMarketItem[1].nftContract = NFT
    /\ owners[idToMarketItem[1].tokenId] = Market

\* C21: when the seller's account rejects the payment of an otherwise
\* successful createMarketSale the call fails TransferFailed and the whole
\* sale is rolled back: the item is unsold with no owner, the asset is
\* owned by the marketplace, the sold counter and every balance are as
\* before.
C21_RejectedPaymentRollsBack ==
    /\ [](\A c \in Buyers, n \in NftContracts, i \in ItemSlots, v \in Payments :
            CreateMarketSaleResult(c, n, i, v, TRUE) = "ok"
               => CreateMarketSaleResult(c, n, i, v, FALSE) = "TransferFailed")
    /\ [][Called("createMarketSale", "TransferFailed") =>
            /\ UNCHANGED chain
            /\ \A c \in Buyers, n \in NftContracts, i \in ItemSlots,
                  v \in Payments :
                  CreateMarketSale(c, n, i, v, Plain(FALSE)) =>
                     /\ idToMarketItem'[i].sold = FALSE
                     /\ idToMarketItem'[i].owner = Zero
                     /\ (n = NFT => owners'[idToMarketItem[i].tokenId] = Market)
                     /\ itemsSold' = itemsSold
                     /\ balance'[c] = balance[c]
         ]_vars

C21_Witness ==
    /\ last = [op |-> "createMarketSale", result |-> "TransferFailed"]
    /\ itemsSold = 0
    /\ balance[Buyer] = InitialBalance
    /\ balance[Seller] = InitialBalance
    /\ \E i \in ItemSlots :
          /\ idToMarketItem[i].itemId = i
          /\ idToMarketItem[i].nftContract = NFT
          /\ idToMarketItem[i].seller \in CodeAccounts
          /\ idToMarketItem[i].sold = FALSE
          /\ idToMarketItem[i].owner = Zero
          /\ owners[idToMarketItem[i].tokenId] = Market

\* C22: the itemId of a record is the value of the counter when it was
\* created: the counter starts at 0, only a successful createMarketItem
\* moves it, by one, and stores the new value in the record of that slot;
\* a sale or a cancellation never moves it back, so no id is given twice
\* and every recorded id is above all ids given before.
C22_ItemIdsUniqueIncreasing ==
    /\ [](\A i \in MarketItemIds :
            /\ idToMarketItem[i].itemId \in {0, i}
            /\ idToMarketItem[i].itemId <= itemIds)
    /\ [][/\ (itemIds' # itemIds) <=> Called("createMarketItem", "ok")
          /\ Called("createMarketItem", "ok") =>
                /\ itemIds' = itemIds + 1
                /\ idToMarketItem'[itemIds'].itemId = itemIds'
                /\ \A i \in MarketItemIds \ {itemIds'} :
                      /\ idToMarketItem'[i] = idToMarketItem[i]
                      /\ idToMarketItem'[i].itemId < itemIds'
         ]_vars

C22_Witness ==
    /\ last = [op |-> "createMarketItem", result |-> "ok"]
    /\ itemIds = 2
    /\ ~ItemRecorded(1)
    /\ idToMarketItem[2].itemId = 2
    /\ idToMarketItem[2].nftContract = NFT

\* C23: the itemId, asset, seller and price of a created record never
\* change while the record is stored; its owner and sold change only in a
\* successful createMarketSale, together, from (none, FALSE) to
\* (buyer, TRUE); in every state sold = TRUE exactly when the owner is set.
C23_RecordFrozenButOwnerAndSold ==
    /\ [](\A i \in MarketItemIds :
            idToMarketItem[i].sold <=> idToMarketItem[i].owner # Zero)
    /\ [][\A i \in ItemSlots :
            (idToMarketItem[i].itemId = i /\ idToMarketItem'[i] # BlankItem) =>
               LET old == idToMarketItem[i]
                   new == idToMarketItem'[i]
               IN  /\ new.itemId = old.itemId
                   /\ new.nftContract = old.nftContract
                   /\ new.tokenId = old.tokenId
                   /\ new.seller = old.seller
                   /\ new.price = old.price
                   /\ (new.owner # old.owner \/ new.sold # old.sold) =>
                         /\ Called("createMarketSale", "ok")
                         /\ old.owner = Zero /\ old.sold = FALSE
                         /\ new.owner \in Buyers /\ new.sold = TRUE
         ]_vars

C23_Witness ==
    /\ last = [op |-> "createMarketSale", result |-> "ok"]
    /\ \E i \in ItemSlots :
          /\ idToMarketItem[i] =
                [itemId |-> i, nftContract |-> NFT, tokenId |-> 1,
                 seller |-> Seller, owner |-> Buyer, price |-> 50,
                 sold |-> TRUE]

\* C24: in a successful createMarketSale of a created item, called with
\* the item's own nftContract, the calls to code outside the marketplace are the transferFrom of the asset contract and then the
\* payment to the seller, and at each of them the item already reads
\* owner = buyer and sold = TRUE.
C24_RecordWrittenBeforeCallouts ==
    [][Called("createMarketSale", "ok") =>
        \A c \in Buyers, n \in NftContracts, i \in ItemSlots, v \in Payments :
          ( /\ idToMarketItem[i].itemId = i
            /\ idToMarketItem[i].nftContract = n
            /\ CreateMarketSale(c, n, i, v, Plain(TRUE)) ) =>
             LET callouts == CreateMarketSaleCallouts(c, n, i)
             IN  /\ Len(callouts) = 2
                 /\ callouts[1].call = "transferFrom"
                 /\ callouts[2].call = "payment"
                 /\ \A k \in 1..Len(callouts) :
                       /\ callouts[k].item.sold = TRUE
                       /\ callouts[k].item.owner = c
      ]_vars

\* C25: a call of createMarketItem, createMarketSale or cancelMarketItem
\* has only its own effects, whatever the accounts it calls out to do
\* meanwhile: it leaves the fee percentage and the marketplace owner as
\* they were, and the balance of the marketplace grows by the fee of the
\* item sold and by nothing else.
C25_NoNestedCallTakesEffect ==
    [][NonReentrant(last'.op) =>
        /\ listingFeePercentage' = listingFeePercentage
        /\ marketplaceOwner' = marketplaceOwner
        /\ IF Called("createMarketSale", "ok")
           THEN \A i \in ItemSlots :
                   idToMarketItem'[i] # idToMarketItem[i] =>
                      balance'[Market] = balance[Market]
                          + ListingFee(idToMarketItem[i].price,
                                       listingFeePercentage)
           ELSE balance'[Market] = balance[Market]
      ]_vars

\* C26: a token that has an owner has its details: in every state between
\* calls, and in the registry as each recipient callback of a mintPokemon
\* finds it when it reads ownerOf and getPokemonDetails.
C26_OwnedTokenHasDetails ==
    /\ [](\A t \in RegistryTokenIds :
            TokenExists(t) => GetPokemonDetails(t) = "details")
    /\ [][Called("mintPokemon", "ok") =>
            \A c \in Traders, to \in MintTargets :
              \A callback \in Callbacks(to) :
                 MintPokemon(c, to, callback) =>
                    LET views == MintPokemonResult(to, callback).reg.views
                    IN  \A k \in 1..Len(views) :
                          \A t \in RegistryTokenIds :
                             views[k].owners[t] # Zero
                                => views[k].pokemonDetails[t]
         ]_vars

\* C27: fetchMarketItems never reverts: in every state itemsSold is at most
\* itemIds and the records of 1..itemIds with no owner are exactly
\* itemIds - itemsSold, the length of the array the function allocates.
C27_FetchMarketItemsNeverFails ==
    /\ itemsSold <= itemIds
    /\ Cardinality({i \in 1..itemIds : idToMarketItem[i].owner = Zero})
          = itemIds - itemsSold
    /\ ~FetchMarketItems.reverts

\* C28: a createMarketSale that marks a created item of the registry sold
\* leaves the registry token of that item owned by the buyer it recorded,
\* whatever nftContract argument the call carried.
C28_SaleMovesTheItemsOwnAsset ==
    [][Called("createMarketSale", "ok") =>
        \A i \in ItemSlots :
           ( /\ idToMarketItem[i].itemId = i
             /\ idToMarketItem[i].nftContract = NFT
             /\ ~idToMarketItem[i].sold
             /\ idToMarketItem'[i].sold )
           => /\ owners[idToMarketItem[i].tokenId] = Market
              /\ owners'[idToMarketItem[i].tokenId] = idToMarketItem'[i].owner
      ]_vars

\* C29: every item fetchMyNFTs returns for an identity refers to a token
\* the registry holds for that identity.  Stated for the items whose
\* nftContract is the registry.
C29_MyNFTsAreOwnedInRegistry ==
    \A x \in Users :
       LET items == FetchMyNFTs(x)
       IN  \A k \in 1..Len(items) :
              items[k].nftContract = NFT => OwnerOf(items[k].tokenId) = x

\* C30: no token of the registry is the asset of two stored unsold items.
C30_NoAssetListedTwice ==
    \A i, j \in MarketItemIds :
       ( /\ i # j
         /\ ItemUnsold(i) /\ idToMarketItem[i].nftContract = NFT
         /\ ItemUnsold(j) /\ idToMarketItem[j].nftContract = NFT )
       => idToMarketItem[i].tokenId # idToMarketItem[j].tokenId

====
